---- MODULE Spec2Model ----
(***************************************************************************)
(* examples/15_simple_lstm.py: hardware-aware training of an analog RNN    *)
(* on a synthetic periodic sequence.  The script is one sequential run:    *)
(* dataset construction, model selection, training loop, perplexity plot,  *)
(* test, test plot, drift sweep, drift plot.  Each statement (or group of  *)
(* statements without a call in between) is one action; pc is the         *)
(* position of the run in the script.                                      *)
(*                                                                         *)
(* Tensors are records [shape |-> <<d0, ...>>, val |-> function from index *)
(* tuples (0-based, as in the script) to elements].                        *)
(*                                                                         *)
(* Elements of the signal y are named by their grid point: y[k] = k stands *)
(* for the float32 value sin(x[k])*cos(0.5*x[k]) + 0.5 with                *)
(* x = linspace(0, 8*pi, SEQ_LEN).  Two different grid points are two      *)
(* different elements.  In particular the first and the last element       *)
(* differ: x[0] = 0 gives y[0] = 0.5 exactly, while x[SEQ_LEN-1] is        *)
(* float32(8*pi) = 25.132741928 = 8*pi + 6.99e-7, whose sine is 6.99e-7,   *)
(* so y[SEQ_LEN-1] = 0.50000072 (12 float32 ulps above 0.5).               *)
(* A dataset element is the pair <<grid point, noise>> for the sum         *)
(* rolled + NOISE*rand.                                                    *)
(***************************************************************************)
EXTENDS Integers, Sequences, FiniteSets, TLC

\* ---- bounds of the model ------------------------------------------------
MaxL == 7
MaxRunL == 4
MaxB == 2
MaxE == 2
MaxLoss == 1

\* ---- constants of the script --------------------------------------------
INPUT_SIZE == 1
EMBED_SIZE == 20
HIDDEN_SIZE == 50
OUTPUT_SIZE == 1
RollStep == 100

DriftTimes_swapped == <<0, 1, 1000, 20, 100000>>

\* for t_inference in [0., 1., 20., 1000., 1e5]
DriftTimes == <<0, 1, 20, 1000, 100000>>

None == "None"

\* in_states=None, and "states" before the first forward pass.
NoState == [h |-> "default"]

VARIABLES
    SEQ_LEN, BATCH_SIZE, EPOCHS, NOISE, WITH_EMBEDDING, WITH_BIDIR,
    pc, i, error,
    y, y_in_1d, y_out_1d, y_in_2d, y_out_2d, y_in, y_out,
    model, made, grads, losses, pred, states, loss, pred_drift, t_idx,
    fig, saved, log

config == <<SEQ_LEN, BATCH_SIZE, EPOCHS, NOISE, WITH_EMBEDDING, WITH_BIDIR>>
dataset == <<y, y_in_1d, y_out_1d, y_in_2d, y_out_2d, y_in, y_out>>
training == <<model, made, grads, losses, pred, states, loss>>
sweep == <<pred_drift, t_idx>>
plots == <<fig, saved>>
vars == <<config, pc, i, error, dataset, training, sweep, plots, log>>

\* One entry of the history of calls: the operation, the script line of the
\* call and what it was called with.
Call(op, at, arg) == [op |-> op, at |-> at, arg |-> arg]

\* ---- tensors ---------------------------------------------------------------
Range(n) == 0 .. (n - 1)

Idx1(n) == {<<k>> : k \in Range(n)}

Numel1(v) == v.shape[1]

\* torch.linspace(0, 8*pi, steps): element k is k steps of 8*pi/(steps-1);
\* the model counts in steps.
linspace(steps) == [shape |-> <<steps>>, val |-> [ix \in Idx1(steps) |-> ix[1]]]

\* torch.sin(x)*torch.cos(0.5*x) + 0.5, elementwise: the element at grid
\* point x[k] (see the module comment).
signal(x) == [shape |-> x.shape, val |-> [ix \in Idx1(Numel1(x)) |-> x.val[ix]]]

\* A Python slice bound, normalised against length n.
SliceBound(a, n) ==
    IF a < 0 THEN (IF a + n < 0 THEN 0 ELSE a + n)
    ELSE (IF a > n THEN n ELSE a)

\* v[a:b] of a 1-d tensor.
Slice(v, a, b) ==
    LET n == Numel1(v)
        lo == SliceBound(a, n)
        hi == SliceBound(b, n)
        len == IF hi > lo THEN hi - lo ELSE 0
    IN [shape |-> <<len>>, val |-> [ix \in Idx1(len) |-> v.val[<<lo + ix[1]>>]]]

Roll_reversed(v, shifts) ==
    LET n == Numel1(v)
    IN IF n = 0 THEN v
       ELSE [shape |-> v.shape,
             val |-> [ix \in Idx1(n) |-> v.val[<<(ix[1] + shifts) % n>>]]]

\* torch.roll(v, shifts, dims=0): element j moves to (j + shifts) mod n.
Roll(v, shifts) ==
    LET n == Numel1(v)
    IN IF n = 0 THEN v
       ELSE [shape |-> v.shape,
             val |-> [ix \in Idx1(n) |-> v.val[<<(ix[1] - shifts) % n>>]]]

\* torch.rand(shape): the draws, quantised to {0, 1} per element; the model
\* keeps the draws with at most one nonzero element.
RandDraws(n) ==
    {[shape |-> <<n>>, val |-> [ix \in Idx1(n) |-> IF ix[1] = h THEN 1 ELSE 0]] :
        h \in -1 .. (n - 1)}

\* rolled + NOISE*rand, elementwise.
AddNoise(rolled, noise, r) ==
    [shape |-> rolled.shape,
     val |-> [ix \in Idx1(Numel1(rolled)) |-> <<rolled.val[ix], noise * r.val[ix]>>]]

\* torch.stack(rows, dim=0) of 1-d tensors of one length: shape (len(rows), n).
Stack(rows) ==
    LET n == Numel1(rows[1])
    IN [shape |-> <<Len(rows), n>>,
        val |-> [ix \in Range(Len(rows)) \X Range(n) |-> rows[ix[1] + 1].val[<<ix[2]>>]]]

\* .transpose(0, 1) of a 2-d tensor.
Transpose01(m) ==
    [shape |-> <<m.shape[2], m.shape[1]>>,
     val |-> [ix \in Range(m.shape[2]) \X Range(m.shape[1]) |-> m.val[<<ix[2], ix[1]>>]]]

\* .unsqueeze(2) of a 2-d tensor.
Unsqueeze2(m) ==
    [shape |-> <<m.shape[1], m.shape[2], 1>>,
     val |-> [ix \in Range(m.shape[1]) \X Range(m.shape[2]) \X {0} |->
                 m.val[<<ix[1], ix[2]>>]]]

\* ---- dataset construction ---------------------------------------------------
InitWith(noiseLevels) ==
    /\ SEQ_LEN \in 0 .. MaxL
    /\ BATCH_SIZE \in 1 .. MaxB
    /\ EPOCHS \in 0 .. MaxE
    /\ NOISE \in noiseLevels
    /\ WITH_EMBEDDING \in BOOLEAN
    /\ WITH_BIDIR \in BOOLEAN
    /\ pc = "make_dataset"
    /\ i = 0
    /\ y = None /\ y_in_1d = None /\ y_out_1d = None
    /\ y_in_2d = <<>> /\ y_out_2d = <<>>
    /\ y_in = None /\ y_out = None
    /\ error = "none"
    /\ model = None /\ made = 0 /\ grads = {} /\ losses = <<>>
    /\ pred = None /\ states = NoState /\ loss = None
    /\ pred_drift = None /\ t_idx = 1
    /\ fig = <<>> /\ saved = <<>>
    /\ log = <<>>

\* x = linspace; y = signal; the two slices; the two empty lists.
MakeSignal ==
    /\ pc = "make_dataset"
    /\ LET yy == signal(linspace(SEQ_LEN))
       IN /\ y' = yy
          /\ y_in_1d' = Slice(yy, 0, SEQ_LEN - 1)
          /\ y_out_1d' = Slice(yy, 1, SEQ_LEN)
    /\ y_in_2d' = <<>>
    /\ y_out_2d' = <<>>
    /\ i' = 0
    /\ pc' = "rows"
    /\ log' = Append(log, Call("make_signal", 90, SEQ_LEN))
    /\ UNCHANGED <<config, error, y_in, y_out, training, sweep, plots>>

InRow(b, r) == AddNoise(Roll(y_in_1d, RollStep * b), NOISE, r)

OutRow_offByOne(b, r) == AddNoise(Roll(y_out_1d, RollStep * b + 1), NOISE, r)

OutRow(b, r) == AddNoise(Roll(y_out_1d, RollStep * b), NOISE, r)

\* One iteration of "for i in range(BATCH_SIZE)".
AppendRows ==
    /\ pc = "rows"
    /\ i < BATCH_SIZE
    /\ \E r_in \in RandDraws(Numel1(y_in_1d)), r_out \in RandDraws(Numel1(y_out_1d)) :
          /\ y_in_2d' = Append(y_in_2d, InRow(i, r_in))
          /\ y_out_2d' = Append(y_out_2d, OutRow(i, r_out))
    /\ log' = Append(log, Call("append_rows", 97, i))
    /\ i' = i + 1
    /\ UNCHANGED <<config, pc, error, y, y_in_1d, y_out_1d, y_in, y_out,
                   training, sweep, plots>>

StackDataset ==
    /\ pc = "rows"
    /\ i = BATCH_SIZE
    /\ y_in' = Unsqueeze2(Transpose01(Stack(y_in_2d)))
    /\ y_out' = Unsqueeze2(Transpose01(Stack(y_out_2d)))
    /\ pc' = "select_model"
    /\ log' = Append(log, Call("stack", 99, BATCH_SIZE))
    /\ UNCHANGED <<config, i, error, y, y_in_1d, y_out_1d, y_in_2d, y_out_2d,
                   training, sweep, plots>>

\* ---- the four networks -------------------------------------------------------
\* A constructed network: its class, the layers __init__ creates, the mode
\* (nn.Module starts in training mode), the optimizer updates its parameters
\* have received and the drift calls applied to its analog weights.
Network(cls, embedding, bidir, rnn_in, decoder_in) ==
    [cls |-> cls, id |-> made + 1,
     embedding |-> embedding, bidir |-> bidir,
     rnn_in |-> rnn_in, decoder_in |-> decoder_in, decoder_out |-> OUTPUT_SIZE,
     training |-> TRUE, updates |-> 0, drifts |-> <<>>]

AnalogBidirRNNNetwork ==
    Network("AnalogBidirRNNNetwork", TRUE, TRUE, EMBED_SIZE, 2 * HIDDEN_SIZE)

AnalogBidirRNNNetwork_noEmbedding ==
    Network("AnalogBidirRNNNetwork_noEmbedding", FALSE, TRUE, INPUT_SIZE, 2 * HIDDEN_SIZE)

AnalogRNNNetwork ==
    Network("AnalogRNNNetwork", TRUE, FALSE, EMBED_SIZE, HIDDEN_SIZE)

AnalogRNNNetwork_noEmbedding ==
    Network("AnalogRNNNetwork_noEmbedding", FALSE, FALSE, INPUT_SIZE, HIDDEN_SIZE)

\* An activation: its shape, the layers it went through, the recurrent state
\* the pass started from, and the weights and mode it was computed with.
Input(self, x_in, in_states) ==
    [shape |-> x_in.shape, via |-> <<>>, in_states |-> in_states,
     updates |-> self.updates, drifts |-> self.drifts, training |-> self.training]

Layer(name, a, features) ==
    [a EXCEPT !.shape = <<a.shape[1], a.shape[2], features>>,
              !.via = Append(a.via, name)]

\* The state a pass of the recurrent layer returns.
FinalState(a) == [h |-> "final", updates |-> a.updates, drifts |-> a.drifts]

\* Output features of AnalogRNN: both directions are concatenated.
RnnFeatures(self) == IF self.bidir THEN 2 * HIDDEN_SIZE ELSE HIDDEN_SIZE

\* forward() of the two classes with an embedding layer.
ForwardEmbedding(self, x_in, in_states) ==
    LET embed == Layer("dropout", Layer("embedding", Input(self, x_in, in_states),
                                        EMBED_SIZE), EMBED_SIZE)
        rnn_out == Layer("rnn", embed, RnnFeatures(self))
        out == Layer("dropout", Layer("decoder", rnn_out, self.decoder_out),
                     self.decoder_out)
    IN [out |-> out, out_states |-> FinalState(rnn_out)]

\* forward() of the two classes without one.
ForwardNoEmbedding(self, x_in, in_states) ==
    LET rnn_out == Layer("rnn", Input(self, x_in, in_states), RnnFeatures(self))
        out == Layer("dropout", Layer("decoder", rnn_out, self.decoder_out),
                     self.decoder_out)
    IN [out |-> out, out_states |-> FinalState(rnn_out)]

Forward(self, x_in, in_states) ==
    IF self.embedding THEN ForwardEmbedding(self, x_in, in_states)
    ELSE ForwardNoEmbedding(self, x_in, in_states)

ModelCall_carriesState(x_in) == Forward(model, x_in, states)

\* model(y_in): forward(x_in) with in_states left at its default, None.
ModelCall(x_in) == Forward(model, x_in, NoState)

\* The 2 x 2 choice of the class to instantiate.
SelectedClass ==
    IF WITH_EMBEDDING
    THEN (IF WITH_BIDIR THEN AnalogBidirRNNNetwork ELSE AnalogRNNNetwork)
    ELSE (IF WITH_BIDIR THEN AnalogBidirRNNNetwork_noEmbedding
          ELSE AnalogRNNNetwork_noEmbedding)

SelectModel ==
    /\ pc = "select_model"
    /\ model' = SelectedClass
    /\ made' = made + 1
    /\ pc' = "optimizer"
    /\ log' = Append(log, Call("new_model", 178, SelectedClass.cls))
    /\ UNCHANGED <<config, i, error, dataset, grads, losses, pred, states, loss,
                   sweep, plots>>

\* optimizer, regroup_param_groups, criterion, losses = [].
MakeOptimizer ==
    /\ pc = "optimizer"
    /\ grads' = {}
    /\ losses' = <<>>
    /\ i' = 0
    /\ pc' = "epoch"
    /\ log' = Append(log, Call("new_optimizer", 189, model.id))
    /\ UNCHANGED <<config, error, dataset, model, made, pred, states, loss,
                   sweep, plots>>

\* ---- training loop -------------------------------------------------------------
ZeroGrad_keepsGradients ==
    /\ pc = "epoch"
    /\ i < EPOCHS
    /\ pc' = "forward"
    /\ log' = Append(log, Call("zero_grad", 196, i))
    /\ UNCHANGED <<config, i, error, dataset, model, made, grads, losses, pred,
                   states, loss, sweep, plots>>

\* Entering one iteration of "for i in range(EPOCHS)": optimizer.zero_grad().
ZeroGrad ==
    /\ pc = "epoch"
    /\ i < EPOCHS
    /\ grads' = {}
    /\ pc' = "forward"
    /\ log' = Append(log, Call("zero_grad", 196, i))
    /\ UNCHANGED <<config, i, error, dataset, model, made, losses, pred, states,
                   loss, sweep, plots>>

\* pred, states = model(y_in)
TrainForward ==
    /\ pc = "forward"
    /\ LET r == ModelCall(y_in)
       IN /\ pred' = r.out
          /\ states' = r.out_states
          /\ log' = Append(log, Call("forward", 197, r.out.in_states))
    /\ pc' = "loss"
    /\ UNCHANGED <<config, i, error, dataset, model, made, grads, losses, loss,
                   sweep, plots>>

\* criterion(pred, target): the scalar the external MSELoss returns, any of
\* the values of the model, for the prediction it was given.
MSELoss(p, target, value) ==
    [value |-> value, updates |-> p.updates, drifts |-> p.drifts]

\* loss = criterion(pred, y_out); print(... np.exp(loss) ...)
TrainLoss ==
    /\ pc = "loss"
    /\ \E value \in 0 .. MaxLoss :
          /\ loss' = MSELoss(pred, y_out, value)
          /\ log' = log \o <<Call("mse_loss", 199, i), Call("print", 200, <<"exp", value>>)>>
    /\ pc' = "backward"
    /\ UNCHANGED <<config, i, error, dataset, model, made, grads, losses, pred,
                   states, sweep, plots>>

\* loss.backward(): the gradient of this epoch's loss is added to .grad.
Backward ==
    /\ pc = "backward"
    /\ grads' = grads \cup {[epoch |-> i, updates |-> loss.updates]}
    /\ pc' = "step"
    /\ log' = Append(log, Call("backward", 202, i))
    /\ UNCHANGED <<config, i, error, dataset, model, made, losses, pred, states,
                   loss, sweep, plots>>

\* optimizer.step(): one update of the parameters from the gradients held.
Step ==
    /\ pc = "step"
    /\ model' = [model EXCEPT !.updates = @ + 1]
    /\ pc' = "append"
    /\ log' = Append(log, Call("step", 203, grads))
    /\ UNCHANGED <<config, i, error, dataset, made, grads, losses, pred, states,
                   loss, sweep, plots>>

AppendLoss_earlyStop ==
    /\ pc = "append"
    /\ losses' = Append(losses, loss)
    /\ i' = IF loss.value = 0 THEN EPOCHS ELSE i + 1
    /\ pc' = "epoch"
    /\ log' = Append(log, Call("append", 205, i))
    /\ UNCHANGED <<config, error, dataset, model, made, grads, pred, states, loss,
                   sweep, plots>>

\* losses.append(loss.detach().cpu()), and on to the next iteration.
AppendLoss ==
    /\ pc = "append"
    /\ losses' = Append(losses, loss)
    /\ i' = i + 1
    /\ pc' = "epoch"
    /\ log' = Append(log, Call("append", 205, i))
    /\ UNCHANGED <<config, error, dataset, model, made, grads, pred, states, loss,
                   sweep, plots>>

\* ---- plots, test and drift sweep --------------------------------------------------
\* t[:, 0, 0] of a dataset tensor.
Select00(t) ==
    [shape |-> <<t.shape[1]>>,
     val |-> [ix \in Idx1(t.shape[1]) |-> t.val[<<ix[1], 0, 0>>]]]

\* a[:, 0, 0] of an activation.
Select00Of(a) == [a EXCEPT !.shape = <<a.shape[1]>>]

Line(label, data) == [label |-> label, data |-> data]

Figure(name, lines) == [name |-> name, lines |-> lines]

\* The loop over the epochs is exhausted: the perplexity figure.
PlotPerplexity ==
    /\ pc = "epoch"
    /\ i >= EPOCHS
    /\ saved' = Append(saved, Figure("train_perplexity", <<Line("", <<"exp", losses>>)>>))
    /\ fig' = <<>>
    /\ pc' = "eval"
    /\ log' = Append(log, Call("savefig", 212, "train_perplexity"))
    /\ UNCHANGED <<config, i, error, dataset, training, sweep>>

\* model.eval()
Eval ==
    /\ pc = "eval"
    /\ model' = [model EXCEPT !.training = FALSE]
    /\ pc' = "test_forward"
    /\ log' = Append(log, Call("eval", 216, model.id))
    /\ UNCHANGED <<config, i, error, dataset, made, grads, losses, pred, states,
                   loss, sweep, plots>>

\* pred, states = model(y_in)
TestForward ==
    /\ pc = "test_forward"
    /\ LET r == ModelCall(y_in)
       IN /\ pred' = r.out
          /\ states' = r.out_states
          /\ log' = Append(log, Call("forward", 217, r.out.in_states))
    /\ pc' = "test_loss"
    /\ UNCHANGED <<config, i, error, dataset, model, made, grads, losses, loss,
                   sweep, plots>>

\* loss = criterion(pred, y_out); print(... np.exp(loss) ...)
TestLoss ==
    /\ pc = "test_loss"
    /\ \E value \in 0 .. MaxLoss :
          /\ loss' = MSELoss(pred, y_out, value)
          /\ log' = log \o <<Call("mse_loss", 218, "test"), Call("print", 219, <<"exp", value>>)>>
    /\ pc' = "plot_test"
    /\ UNCHANGED <<config, i, error, dataset, model, made, grads, losses, pred,
                   states, sweep, plots>>

\* The test figure: truth and prediction of batch element 0.
PlotTest ==
    /\ pc = "plot_test"
    /\ saved' = Append(saved, Figure("test", <<Line("truth", Select00(y_out)),
                                              Line("prediction", Select00Of(pred))>>))
    /\ fig' = <<>>
    /\ pc' = "drift_figure"
    /\ log' = Append(log, Call("savefig", 225, "test"))
    /\ UNCHANGED <<config, i, error, dataset, training, sweep>>

\* plt.figure(); plt.plot(truth), and the start of the loop over the times.
DriftFigure ==
    /\ pc = "drift_figure"
    /\ fig' = <<Line("truth", Select00(y_out))>>
    /\ t_idx' = 1
    /\ pc' = "drift"
    /\ log' = Append(log, Call("figure", 229, "drift"))
    /\ UNCHANGED <<config, i, error, dataset, training, pred_drift, saved>>

Drift_fromReference ==
    /\ pc = "drift"
    /\ t_idx <= Len(DriftTimes)
    /\ model' = [model EXCEPT !.drifts = <<DriftTimes[t_idx]>>]
    /\ pc' = "drift_forward"
    /\ log' = Append(log, Call("drift_analog_weights", 232, DriftTimes[t_idx]))
    /\ UNCHANGED <<config, i, error, dataset, made, grads, losses, pred, states,
                   loss, sweep, plots>>

\* model.drift_analog_weights(t_inference), on the model as it is.
Drift ==
    /\ pc = "drift"
    /\ t_idx <= Len(DriftTimes)
    /\ model' = [model EXCEPT !.drifts = Append(@, DriftTimes[t_idx])]
    /\ pc' = "drift_forward"
    /\ log' = Append(log, Call("drift_analog_weights", 232, DriftTimes[t_idx]))
    /\ UNCHANGED <<config, i, error, dataset, made, grads, losses, pred, states,
                   loss, sweep, plots>>

\* pred_drift, states = model(y_in)
DriftForward ==
    /\ pc = "drift_forward"
    /\ LET r == ModelCall(y_in)
       IN /\ pred_drift' = r.out
          /\ states' = r.out_states
          /\ log' = Append(log, Call("forward", 233, r.out.in_states))
    /\ pc' = "drift_plot"
    /\ UNCHANGED <<config, i, error, dataset, model, made, grads, losses, pred,
                   loss, t_idx, plots>>

\* plt.plot(pred_drift[:, 0, 0], label=t_inference), and the next time.
DriftPlot ==
    /\ pc = "drift_plot"
    /\ fig' = Append(fig, Line(DriftTimes[t_idx], Select00Of(pred_drift)))
    /\ t_idx' = t_idx + 1
    /\ pc' = "drift"
    /\ log' = Append(log, Call("plot", 234, DriftTimes[t_idx]))
    /\ UNCHANGED <<config, i, error, dataset, training, pred_drift, saved>>

SaveDrift_insideLoop ==
    /\ pc = "drift"
    /\ t_idx > 1
    /\ saved' = Append(saved, Figure("drift", fig))
    /\ fig' = <<>>
    /\ pc' = "done"
    /\ log' = Append(log, Call("savefig", 236, "drift"))
    /\ UNCHANGED <<config, i, error, dataset, training, sweep>>

\* The times are exhausted: legend, savefig, close.
SaveDrift ==
    /\ pc = "drift"
    /\ t_idx > Len(DriftTimes)
    /\ saved' = Append(saved, Figure("drift", fig))
    /\ fig' = <<>>
    /\ pc' = "done"
    /\ log' = Append(log, Call("savefig", 236, "drift"))
    /\ UNCHANGED <<config, i, error, dataset, training, sweep>>

\* The script validates nothing: with SEQ_LEN <= 1 the dataset has no time
\* step, and what the library's recurrent layer does with an empty sequence
\* is the library's: the pass returns, or it raises and ends the run.
ForwardRaises ==
    /\ pc \in {"forward", "test_forward", "drift_forward"}
    /\ y_in.shape[1] = 0
    /\ error' = "RuntimeError"
    /\ pc' = "crashed"
    /\ log' = Append(log, Call("raise", 0, "RuntimeError"))
    /\ UNCHANGED <<config, i, dataset, training, sweep, plots>>

NextData == MakeSignal \/ AppendRows \/ StackDataset

\* The dataset construction alone, with and without noise, for the model
\* the script selects.
InitData == InitWith({0, 1}) /\ EPOCHS = 0 /\ WITH_EMBEDDING /\ WITH_BIDIR

SpecData == InitData /\ [][NextData]_vars

\* The whole run is explored for the shorter sequences.
Init == InitWith({0}) /\ SEQ_LEN <= MaxRunL

Next ==
    \/ MakeSignal \/ AppendRows \/ StackDataset
    \/ SelectModel \/ MakeOptimizer
    \/ ZeroGrad \/ TrainForward \/ TrainLoss \/ Backward \/ Step \/ AppendLoss
    \/ PlotPerplexity \/ Eval \/ TestForward \/ TestLoss \/ PlotTest
    \/ DriftFigure \/ Drift \/ DriftForward \/ DriftPlot \/ SaveDrift
    \/ ForwardRaises

\* The whole run, for the noise level the script sets.
Spec == Init /\ [][Next]_vars

\* ---- properties of the run ----------------------------------------------------
DatasetBuilt == pc \notin {"make_dataset", "rows"}

At(t, b) == <<t, b, 0>>

\* Where batch element b wraps: the time step whose target is the last
\* element of the base signal and whose successor's input is the first.
IsWrap(t, b) == (t + 1 - 100 * b) % (SEQ_LEN - 1) = 0

\* C1 as stated: with NOISE = 0 and SEQ_LEN > 1, y_in and y_out have shape
\* (SEQ_LEN-1, BATCH_SIZE, 1) and y_out[t, b] = y_in[t+1, b] for every batch
\* element b and every t in 0..SEQ_LEN-3, the rolled batch elements included.
C1_TargetIsInputShifted ==
    (DatasetBuilt /\ NOISE = 0 /\ SEQ_LEN > 1) =>
        /\ y_in.shape = <<SEQ_LEN - 1, BATCH_SIZE, 1>>
        /\ y_out.shape = <<SEQ_LEN - 1, BATCH_SIZE, 1>>
        /\ \A b \in 0 .. (BATCH_SIZE - 1), t \in 0 .. (SEQ_LEN - 3) :
              y_out.val[At(t, b)] = y_in.val[At(t + 1, b)]

\* C1 as amended: the shapes are (SEQ_LEN-1, BATCH_SIZE, 1), and
\* y_out[t, b] = y_in[t+1, b] for every b and every t in 0..SEQ_LEN-3 except
\* where batch element b wraps, (t + 1 - 100*b) mod (SEQ_LEN-1) = 0: there
\* the target is the last element y[SEQ_LEN-1] of the signal and the next
\* input is its first element y[0].
C1_TargetIsInputShiftedOffWrap ==
    (DatasetBuilt /\ NOISE = 0 /\ SEQ_LEN > 1) =>
        /\ y_in.shape = <<SEQ_LEN - 1, BATCH_SIZE, 1>>
        /\ y_out.shape = <<SEQ_LEN - 1, BATCH_SIZE, 1>>
        /\ \A b \in 0 .. (BATCH_SIZE - 1), t \in 0 .. (SEQ_LEN - 3) :
              IF IsWrap(t, b)
              THEN /\ y_out.val[At(t, b)] = <<SEQ_LEN - 1, 0>>
                   /\ y_in.val[At(t + 1, b)] = <<0, 0>>
              ELSE y_out.val[At(t, b)] = y_in.val[At(t + 1, b)]

\* A noise-free dataset is built in which a rolled batch element wraps inside
\* the compared range and another time step of it does not.
C1_Witness ==
    /\ DatasetBuilt /\ NOISE = 0 /\ SEQ_LEN > 2
    /\ \E b \in 1 .. (BATCH_SIZE - 1) :
          \E t, u \in 0 .. (SEQ_LEN - 3) : IsWrap(t, b) /\ ~IsWrap(u, b)

\* C2: with NOISE = 0, the input of batch element b is the input of batch
\* element 0 shifted cyclically by 100*b:
\* y_in[t, b] = y_in[(t - 100*b) mod (SEQ_LEN-1), 0] for every t in 0..SEQ_LEN-2.
C2_CyclicShift ==
    (DatasetBuilt /\ NOISE = 0 /\ SEQ_LEN > 1) =>
        \A b \in 0 .. (BATCH_SIZE - 1), t \in 0 .. (SEQ_LEN - 2) :
            y_in.val[At(t, b)] = y_in.val[At((t - 100 * b) % (SEQ_LEN - 1), 0)]

\* A noise-free dataset is built whose batch element 1 is shifted by a
\* nonzero amount modulo the length.
C2_Witness ==
    /\ DatasetBuilt /\ NOISE = 0 /\ SEQ_LEN > 1 /\ BATCH_SIZE > 1
    /\ 100 % (SEQ_LEN - 1) # 0
    /\ y_in.val[At(0, 1)] # y_in.val[At(0, 0)]


ModelBuilt == pc \notin {"make_dataset", "rows", "select_model"}

TrainingOver ==
    pc \in {"eval", "test_forward", "test_loss", "plot_test", "drift_figure",
            "drift", "drift_forward", "drift_plot", "done"}

\* The calls made from script line "at", and those among them before the
\* k-th call of the run.
Calls(at) == Cardinality({k \in 1 .. Len(log) : log[k].at = at})

Before(k, at) == Cardinality({j \in 1 .. (k - 1) : log[j].at = at})

\* C3 as stated: with SEQ_LEN <= 1 the run fails with InvalidSequenceLength
\* before any array is constructed; it builds no tensor, model or epoch.
C3_FailsFast ==
    SEQ_LEN <= 1 =>
        \/ pc = "make_dataset"
        \/ pc = "crashed" /\ error = "InvalidSequenceLength" /\ log = <<>>

\* C4: for well-formed inputs the loop runs exactly EPOCHS epochs whatever
\* the losses are: one loss is appended per completed epoch, in epoch order
\* (after k completed epochs there are k), and once the loop is left every
\* statement of its body has run exactly EPOCHS times.
C4_ExactlyEpochsLosses ==
    (SEQ_LEN > 1) =>
        /\ Len(losses) = Calls(205)
        /\ Len(losses) <= EPOCHS
        /\ pc = "epoch" => Len(losses) = Calls(203) /\ Len(losses) = Calls(196)
        /\ \A k \in 1 .. Len(log) : log[k].at = 205 => log[k].arg = Before(k, 205)
        /\ TrainingOver =>
              /\ Len(losses) = EPOCHS
              /\ \A at \in {196, 197, 199, 200, 202, 203, 205} : Calls(at) = EPOCHS

\* A run of two epochs whose first loss is 0 and whose second is not has
\* left the loop.
C4_Witness ==
    /\ SEQ_LEN > 1 /\ EPOCHS = 2 /\ pc = "done"
    /\ Len(losses) = 2 /\ losses[1].value = 0 /\ losses[2].value = 1

\* The curves drawn in the drift figure after the truth.
Observations == IF pc = "done" THEN Tail(saved[3].lines) ELSE Tail(fig)

InSweep == pc \in {"drift", "drift_forward", "drift_plot", "done"}

\* The calls of the sweep's loop body, in order.
SweepLog ==
    LET InBody(e) == e.at \in {232, 233, 234}
    IN SelectSeq(log, InBody)

\* C5: the sweep yields exactly 5 observations, for 0, 1, 20, 1000, 100000 in
\* this order; each comes from one drift call with that time followed by one
\* forward pass on the training input, has the shape of the baseline
\* prediction, and the (t, prediction) pairs are kept in sweep order.
C5_DriftSweep ==
    LET times == <<0, 1, 20, 1000, 100000>>
        obs == Observations
        calls == SweepLog
    IN InSweep =>
        /\ Len(obs) <= 5
        /\ pc = "done" => Len(obs) = 5 /\ Len(calls) = 15
        /\ \A k \in 1 .. Len(obs) :
              /\ obs[k].label = times[k]
              /\ obs[k].data.drifts = SubSeq(times, 1, k)
              /\ obs[k].data.shape = <<pred.shape[1]>>
        /\ \A j \in 1 .. Len(calls) :
              LET k == ((j - 1) \div 3) + 1
                  e == calls[j]
              IN CASE j % 3 = 1 -> e.op = "drift_analog_weights" /\ e.arg = times[k]
                   [] j % 3 = 2 -> e.op = "forward"
                   [] OTHER -> e.op = "plot" /\ e.arg = times[k]
        /\ (pc = "drift_plot" \/ Len(obs) > 0) =>
              /\ pred_drift.shape = pred.shape
              /\ pred_drift.shape = <<y_in.shape[1], y_in.shape[2], 1>>

\* The sweep of a well-formed run is complete and its figure saved.
C5_Witness ==
    /\ pc = "done" /\ SEQ_LEN > 1 /\ BATCH_SIZE > 1
    /\ Len(saved) = 3 /\ Len(saved[3].lines) = 6

\* The phase of a call as C6 states them: dataset, model, training,
\* evaluation, drift sweep, rendering.
StatedPhase(e) ==
    CASE e.op \in {"savefig", "figure", "plot"} -> 6
      [] e.at \in 90 .. 100 -> 1
      [] e.at \in 178 .. 191 -> 2
      [] e.at \in 196 .. 205 -> 3
      [] e.at \in 216 .. 219 -> 4
      [] OTHER -> 5

\* C6 as stated: the calls of a well-formed run are in the order dataset,
\* model, training, evaluation, drift sweep, rendering, and every plot is
\* rendered only after the five iterations of the drift sweep.
C6_RenderAfterSweep ==
    (SEQ_LEN > 1 /\ EPOCHS > 0) =>
        /\ \A k \in 1 .. (Len(log) - 1) :
              StatedPhase(log[k]) <= StatedPhase(log[k + 1])
        /\ \A k \in 1 .. Len(log) : log[k].op = "savefig" => Before(k, 233) = 5

\* The phase of a call as the script has them: dataset, model, training,
\* perplexity figure, evaluation, test figure, drift sweep (its curves are
\* drawn as the sweep goes), saving the drift figure.
Phase(e) ==
    CASE e.at \in 90 .. 100 -> 1
      [] e.at \in 178 .. 191 -> 2
      [] e.at \in 196 .. 205 -> 3
      [] e.at = 212 -> 4
      [] e.at \in 216 .. 219 -> 5
      [] e.at = 225 -> 6
      [] e.at \in 229 .. 234 -> 7
      [] OTHER -> 8

\* C6 as amended: the run is strictly sequential in the order dataset, model,
\* training (EPOCHS iterations), perplexity figure, one evaluation, test
\* figure, drift sweep (5 iterations, each drawing its curve), saving the
\* drift figure; no phase starts before the previous one has finished, and
\* only the drift figure is saved after the sweep.
C6_SequentialPhases ==
    /\ \A k \in 1 .. (Len(log) - 1) :
          log[k + 1].op # "raise" =>
              /\ Phase(log[k]) <= Phase(log[k + 1])
              /\ \/ Phase(log[k + 1]) <= Phase(log[k]) + 1
                 \/ EPOCHS = 0 /\ Phase(log[k]) = 2 /\ Phase(log[k + 1]) = 4
    /\ \A k \in 2 .. Len(log) :
          (log[k].op # "raise" /\ Phase(log[k - 1]) # Phase(log[k])) =>
              CASE Phase(log[k]) = 2 -> Before(k, 97) = BATCH_SIZE /\ Before(k, 99) = 1
                [] Phase(log[k]) = 3 -> Before(k, 178) = 1 /\ Before(k, 189) = 1
                [] Phase(log[k]) = 4 ->
                       /\ Before(k, 178) = 1 /\ Before(k, 189) = 1
                       /\ Before(k, 205) = EPOCHS /\ Before(k, 196) = EPOCHS
                [] Phase(log[k]) = 5 -> Before(k, 212) = 1
                [] Phase(log[k]) = 6 ->
                       Before(k, 216) = 1 /\ Before(k, 217) = 1 /\ Before(k, 218) = 1
                [] Phase(log[k]) = 7 -> Before(k, 225) = 1
                [] OTHER -> Before(k, 229) = 1 /\ Before(k, 232) = 5 /\ Before(k, 234) = 5
    /\ pc = "done" =>
          /\ Len(saved) = 3
          /\ saved[1].name = "train_perplexity"
          /\ saved[2].name = "test"
          /\ saved[3].name = "drift"

\* A run with at least one epoch has saved all three figures.
C6_Witness == pc = "done" /\ EPOCHS > 0 /\ Len(saved) = 3 /\ SEQ_LEN > 1

\* C7 as stated: one model is instantiated, with an embedding iff
\* WITH_EMBEDDING and bidirectional iff WITH_BIDIR; its forward is optional
\* embedding, recurrent layer, dropout, linear decoder to one output channel,
\* takes optional prior state and returns (output, final state).
C7_ModelPipeline ==
    (ModelBuilt /\ SEQ_LEN > 1) =>
        /\ made = 1
        /\ model.embedding = WITH_EMBEDDING
        /\ model.bidir = WITH_BIDIR
        /\ Calls(197) + Calls(217) > 0 =>
              /\ pred.via = (IF WITH_EMBEDDING THEN <<"embedding">> ELSE <<>>)
                                \o <<"rnn", "dropout", "decoder">>
              /\ pred.shape[3] = 1
              /\ states.h = "final"

\* The calls of the loop body of the training loop, the progress report left
\* out.
TrainLog ==
    LET InBody(e) == e.at \in 196 .. 205 /\ e.op # "print"
    IN SelectSeq(log, InBody)

\* C8: the calls of every epoch are, once each and in this order: zero_grad,
\* forward, loss, backward, step, append; the step of epoch e uses exactly
\* the gradient of epoch e's loss, computed by a forward pass made after the
\* gradients were cleared, and the loss recorded for epoch e was computed
\* before epoch e's update.
C8_EpochOrder ==
    LET pattern == <<"zero_grad", "forward", "mse_loss", "backward", "step", "append">>
        calls == TrainLog
    IN /\ \A j \in 1 .. Len(calls) :
             LET e == (j - 1) \div 6
                 c == calls[j]
             IN /\ c.op = pattern[((j - 1) % 6) + 1]
                /\ c.op = "step" => c.arg = {[epoch |-> e, updates |-> e]}
                /\ c.op \in {"zero_grad", "mse_loss", "backward", "append"} => c.arg = e
       /\ \A k \in 1 .. Len(losses) : losses[k].updates = k - 1
       /\ ModelBuilt /\ pc \in {"forward", "loss", "backward"} => grads = {}

\* The second optimizer step of a well-formed run has been made.
C8_Witness ==
    /\ SEQ_LEN > 1 /\ pc = "append" /\ ModelBuilt
    /\ model.updates = 2 /\ Len(losses) = 1

\* C9: every forward pass of the run (training, test, drift sweep) is called
\* without prior state, so none receives the state an earlier pass returned.
C9_NoStateCarried ==
    /\ \A k \in 1 .. Len(log) : log[k].op = "forward" => log[k].arg = NoState
    /\ Calls(197) + Calls(217) > 0 => pred.in_states = NoState
    /\ Calls(233) > 0 => pred_drift.in_states = NoState

\* Passes of all three kinds were made, each having returned a state.
C9_Witness ==
    /\ pc = "done" /\ SEQ_LEN > 1
    /\ Calls(197) = 2 /\ Calls(217) = 1 /\ Calls(233) = 5
    /\ states.h = "final"

InferenceMode ==
    pc \in {"test_forward", "test_loss", "plot_test", "drift_figure",
            "drift", "drift_forward", "drift_plot", "done"}

\* C10: once the loop is left, losses, gradients and the parameters'
\* updates never change again and no call of the loop body is made; the model
\* is in inference mode from before the test prediction to the end; from then
\* on the model changes only by the drift calls, applied in sweep order to the
\* one model instance, each on top of the previous ones.
C10_FrozenAfterTraining ==
    /\ [](InferenceMode => ~model.training /\ made = 1)
    /\ [](TrainingOver =>
            /\ model.updates = EPOCHS
            /\ model.drifts = SubSeq(<<0, 1, 20, 1000, 100000>>, 1, Len(model.drifts))
            /\ pc = "done" => Len(model.drifts) = 5)
    /\ [][TrainingOver =>
            /\ losses' = losses
            /\ grads' = grads
            /\ model'.updates = model.updates
            /\ model'.id = model.id
            /\ \A k \in (Len(log) + 1) .. Len(log') : log'[k].at \notin 196 .. 205]_vars
    /\ [][InferenceMode /\ model' # model =>
            /\ pc = "drift"
            /\ model' = [model EXCEPT !.drifts = Append(@, log'[Len(log')].arg)]]_vars

\* The sweep is over with all five drifts on the trained model.
C10_Witness ==
    /\ pc = "done" /\ SEQ_LEN > 1 /\ EPOCHS = 2
    /\ Len(model.drifts) = 5 /\ ~model.training

====
